---- MODULE Spec2Model ----
(***************************************************************************)
(* Model of the movie recommender's rating store (user_rating_system.py),  *)
(* collaborative model and hybrid fusion (hybrid_recommender.py), content  *)
(* provider (movie_recommender.py) and real-time refresh controller        *)
(* (realtime_updater.py).                                                  *)
(*                                                                         *)
(* Numbers: a rating is an integer; a blend weight is an integer number of *)
(* hundredths (0.7 is 70); a score returned by round(x, 3) is an integer   *)
(* number of thousandths (0.667 is 667).                                   *)
(*                                                                         *)
(* Spec is the single-threaded use of the rating store and of the hybrid   *)
(* system. SpecRT, SpecStartStop and SpecLoop are a RealTimeModelUpdater   *)
(* beside its caller: the calls of the caller and the steps of the         *)
(* updater's threads interleave. In SpecRT the loop is not started and the *)
(* cycles are those of the threshold and of force_update; in SpecStartStop *)
(* the caller starts and stops the loop; in SpecLoop callbacks are         *)
(* registered and the loop is left running while time passes.              *)
(***************************************************************************)
EXTENDS Bags, FiniteSets, Integers, Sequences, TLC

\* ---------------------------------------------------------------- bounds
\* largest num_recommendations a caller asks for
MaxK == 2
\* largest id the AUTOINCREMENT column of the ratings table hands out
MaxRowId == 3

\* most events the callers enqueue
MaxEvents == 2
\* most threads started by _trigger_immediate_update alive at once
MaxThreads == 1
\* most loop threads alive at once
MaxLoops == 2
\* last reading of the clock
MaxTime == 1
\* longest feedback batch handed to adapt_content_weights
MaxFeedback == 2
\* the updater's constructor arguments (the source defaults are 10 and 3600 s)
min_updates_threshold == 2
update_interval == 1

\* ---------------------------------------------------------------- inputs
\* user ids in their sort order (pandas pivot sorts the index)
UserIds == <<"alice", "bob">>
Users == {UserIds[i] : i \in 1..Len(UserIds)}
\* movie ids users rate, and the values they try to give them
RatedMovies == {1, 2}
InputRatings == {-1, 0, 5, 11}
\* the ratings and the feedback categories callers hand to the updater
QueuedRatings == {5, 11}
Feedbacks == {"like", "meh"}
\* the movie dataset (movies_dataset.json / movies_preprocessed.csv), in file order
Dataset == <<
  [id |-> 1, genres |-> <<"Action">>,          vote_average |-> 70, vote_count |-> 10],
  [id |-> 2, genres |-> <<"Drama">>,           vote_average |-> 80, vote_count |-> 20],
  [id |-> 3, genres |-> <<"Action", "Drama">>, vote_average |-> 80, vote_count |-> 5] >>
MovieIds == {Dataset[i].id : i \in 1..Len(Dataset)}
\* movie_title arguments of get_hybrid_recommendations; "" stands for None
Titles == {"", "Heat"}
\* the constructor's default weights, in hundredths
InitWeights == <<70, 30>>

\* ---------------------------------------------------------------- helpers
Min(a, b) == IF a < b THEN a ELSE b

Range(s) == {s[i] : i \in 1..Len(s)}

\* all orderings of a finite set, as sequences without repetition
Orderings(S) ==
  {s \in [1..Cardinality(S) -> S] : \A i, j \in 1..Cardinality(S) : i # j => s[i] # s[j]}

Prefix(s, n) == SubSeq(s, 1, Min(n, Len(s)))

\* position (from 1) of x in s, 0 when absent
IndexOf(s, x) == IF x \in Range(s) THEN CHOOSE i \in 1..Len(s) : s[i] = x ELSE 0

\* round(num / den) for num >= 0, den > 0, ties to even: Python's round()
RoundDiv(num, den) ==
  LET q == num \div den
      r == num % den
  IN  IF 2 * r < den THEN q
      ELSE IF 2 * r > den THEN q + 1
      ELSE IF q % 2 = 0 THEN q ELSE q + 1

\* sorted(xs, key, reverse=True): descending by key, equal keys keep their order
SortDesc(xs, key(_)) ==
  LET n == Len(xs)
      rank(i) == Cardinality({j \in 1..n : key(xs[j]) > key(xs[i])})
               + Cardinality({j \in 1..n : j < i /\ key(xs[j]) = key(xs[i])}) + 1
  IN  [p \in 1..n |-> xs[CHOOSE i \in 1..n : rank(i) = p]]

UserRank(u) == IndexOf(UserIds, u)

\* an index set as pandas keeps it: sorted
SortedUsers(S) == SelectSeq(UserIds, LAMBDA u : u \in S)

RECURSIVE SortedMovies(_)
SortedMovies(S) ==
  IF S = {} THEN <<>>
  ELSE LET m == CHOOSE x \in S : \A y \in S : x <= y
       IN  <<m>> \o SortedMovies(S \ {m})

VARIABLES
  ratings,        \* the ratings table: a bag of rows [user_id, movie_id, rating]
  next_id,        \* the id AUTOINCREMENT gives the next inserted row
  hybrid_system,  \* the fields of the HybridRecommendationSystem instance
  sklearn,        \* which scikit-learn the program runs on: "strict" or "lenient"
  ret,            \* the last call of the public API and what it returned
  call,           \* the call the caller is in the middle of, with its locals
  update_queue,   \* RealTimeModelUpdater.update_queue, oldest event first
  update_count,   \* RealTimeModelUpdater.update_count
  is_running,     \* RealTimeModelUpdater.is_running
  last_update,    \* RealTimeModelUpdater.last_update
  now,            \* the clock
  threads,        \* the live threads of the updater: a bag of their states
  newest_backup,  \* the most recently modified file of models/backups
  latest,         \* models/hybrid_models_latest.pkl
  metrics,        \* models/performance_metrics.jsonl
  enq,            \* how many events have been enqueued
  on_model_updated,  \* RealTimeModelUpdater.on_model_updated: "None", or what
                     \* the registered callable does: "returns" or "raises"
  on_update_failed   \* RealTimeModelUpdater.on_update_failed, likewise

\* the two callback attributes
cbVars == <<on_model_updated, on_update_failed>>

ctlVars == <<call, update_queue, update_count, is_running, last_update, now, threads,
             newest_backup, latest, metrics, enq, cbVars>>

vars == <<ratings, next_id, hybrid_system, sklearn, ret, call, update_queue, update_count,
          is_running, last_update, now, threads, newest_backup, latest, metrics, enq,
          on_model_updated, on_update_failed>>

\* ------------------------------------------------- user_rating_system.py
Row(u, m, v) == [user_id |-> u, movie_id |-> m, rating |-> v]

\* the rows of table t stored under the key (u, m)
RowsOf(t, u, m) == {r \in BagToSet(t) : r.user_id = u /\ r.movie_id = m}

\* t without the rows in S
DeleteRows(t, S) ==
  LET keep == BagToSet(t) \ S
  IN  [r \in keep |-> t[r]]

\* a plain INSERT into a table without the UNIQUE constraint
InsertPlain(t, u, m, v) == t (+) SetToBag({Row(u, m, v)})

\* INSERT OR REPLACE INTO ratings under UNIQUE(user_id, movie_id): the rows
\* that conflict with the new one are deleted, then the new row is inserted
InsertOrReplace(t, u, m, v) ==
  DeleteRows(t, RowsOf(t, u, m)) (+) SetToBag({Row(u, m, v)})

\* a range check that forgets the upper end
ValidRatingNoMax(v) == 0 <= v

\* add_rating's range check
ValidRating(v) == 0 <= v /\ v <= 10

NoCall == [op |-> "none", user_id |-> "", movie_id |-> 0, rating |-> 0, k |-> 0,
           title |-> "", result |-> "", replaced |-> 0, content |-> <<>>,
           collab |-> <<>>, out |-> <<>>, wrote |-> 0, launched |-> FALSE,
           reads |-> <<>>, pre |-> <<>>, clean |-> FALSE]

add_rating(u, m, v) ==
  IF ~ValidRating(v)
  THEN /\ ret' = [NoCall EXCEPT !.op = "add_rating", !.user_id = u, !.movie_id = m,
                                !.rating = v, !.result = "ValueError"]
       /\ UNCHANGED <<ratings, next_id, hybrid_system, sklearn, ctlVars>>
  ELSE /\ ratings' = InsertOrReplace(ratings, u, m, v)
       /\ next_id' = next_id + 1
       /\ ret' = [NoCall EXCEPT !.op = "add_rating", !.user_id = u, !.movie_id = m,
                                !.rating = v, !.result = "True",
                                !.replaced = Cardinality(RowsOf(ratings, u, m))]
       /\ UNCHANGED <<hybrid_system, sklearn, ctlVars>>

\* a delete that reports success whether or not a row matched
delete_rating_always_true(u, m) ==
  /\ ratings' = DeleteRows(ratings, RowsOf(ratings, u, m))
  /\ ret' = [NoCall EXCEPT !.op = "delete_rating", !.user_id = u, !.movie_id = m,
                           !.result = "True"]
  /\ UNCHANGED <<next_id, hybrid_system, sklearn, ctlVars>>

\* DELETE ... WHERE user_id = ? AND movie_id = ?; True when rowcount > 0
delete_rating(u, m) ==
  LET hit == RowsOf(ratings, u, m)
  IN  /\ ratings' = DeleteRows(ratings, hit)
      /\ ret' = [NoCall EXCEPT !.op = "delete_rating", !.user_id = u, !.movie_id = m,
                               !.result = IF hit # {} THEN "True" ELSE "False"]
      /\ UNCHANGED <<next_id, hybrid_system, sklearn, ctlVars>>

\* SELECT movie_id, rating FROM ratings WHERE user_id = ?: one pair per row.
\* Without ORDER BY the order of the rows is the engine's choice, so the
\* result is given as the set of lists the call may return.
get_user_ratings(t, u) ==
  LET mine == {r \in BagToSet(t) : r.user_id = u}
      \* a row held n times is listed n times
      copies == UNION {{<<r, c>> : c \in 1..t[r]} : r \in mine}
  IN  {[i \in 1..Len(o) |-> <<o[i][1].movie_id, o[i][1].rating>>] : o \in Orderings(copies)}

\* ------------------------------------------------- hybrid_recommender.py
\* A user-movie matrix: the pivot's index, its columns and its cells.
Matrix(index, columns, cell) == [index |-> index, columns |-> columns, cell |-> cell]

\* Python's None in a field that otherwise holds a matrix
None == Matrix({}, {}, [p \in {} |-> 0])

NUsers(M) == Cardinality(M.index)
NItems(M) == Cardinality(M.columns)

\* the fields __init__ sets, for weights w
Untrained(w) ==
  [user_movie_matrix |-> None, user_similarity_matrix |-> None,
   item_similarity_matrix |-> None, user_factors |-> None, item_factors |-> None,
   content_weight |-> w[1], collaborative_weight |-> w[2], is_trained |-> FALSE]

\* build_user_movie_matrix: None when the table is empty or pivot() raises on
\* a duplicated (user_id, movie_id); otherwise the pivot with fillna(0)
build_user_movie_matrix(t) ==
  LET rows == BagToSet(t)
      index == {r.user_id : r \in rows}
      columns == {r.movie_id : r \in rows}
      dup == \E r \in rows : t[r] > 1 \/ Cardinality(RowsOf(t, r.user_id, r.movie_id)) > 1
  IN  IF rows = {} \/ dup THEN None
      ELSE Matrix(index, columns,
                  [p \in index \X columns |->
                     IF RowsOf(t, p[1], p[2]) = {} THEN 0
                     ELSE (CHOOSE r \in RowsOf(t, p[1], p[2]) : TRUE).rating])

\* n_components = min(50, min(sparse_matrix.shape) - 1)
NComponents(M) == Min(50, Min(NUsers(M), NItems(M)) - 1)

\* Whether TruncatedSVD.fit_transform returns on matrix M. One column is
\* always refused (ensure_min_features=2); n_components = 0 is refused by a
\* scikit-learn that validates its parameters and fitted to zero-width
\* factors by one that does not.
SvdFits(M, lib) ==
  /\ NItems(M) >= 2
  /\ (NComponents(M) >= 1 \/ lib = "lenient")

\* the four stores of train_collaborative_models, in program order; a
\* similarity matrix and a factor matrix are represented by the user-movie
\* matrix they were computed from (cosine_similarity and TruncatedSVD with
\* random_state=42 are functions of it)
\* a training that folds the new matrix into the one the model holds
TrainMatrixFoldIn(hs, sparse) ==
  LET old == hs.user_movie_matrix
  IN  [hs EXCEPT !.user_movie_matrix =
         Matrix(sparse.index, sparse.columns,
                [p \in sparse.index \X sparse.columns |->
                   sparse.cell[p] + (IF p \in DOMAIN old.cell THEN old.cell[p] ELSE 0)])]

TrainMatrix(hs, sparse) == [hs EXCEPT !.user_movie_matrix = sparse]
TrainUserSim(hs, sparse) == [hs EXCEPT !.user_similarity_matrix = sparse]
TrainItemSim(hs, sparse) == [hs EXCEPT !.item_similarity_matrix = sparse]
TrainUserFactors(hs, sparse) == [hs EXCEPT !.user_factors = sparse]
TrainItemFactors(hs, sparse) == [hs EXCEPT !.item_factors = sparse]
TrainDone(hs) == [hs EXCEPT !.is_trained = TRUE]

TrainSvd(hs, sparse, lib) ==
  IF SvdFits(sparse, lib) THEN TrainItemFactors(TrainUserFactors(hs, sparse), sparse)
  ELSE hs

\* train_collaborative_models run without interruption
train_collaborative_models(hs, t, lib) ==
  LET sparse == build_user_movie_matrix(t)
  IN  IF sparse = None THEN hs
      ELSE TrainDone(TrainSvd(TrainItemSim(TrainUserSim(TrainMatrix(hs, sparse), sparse),
                                           sparse), sparse, lib))

\* sum of the values of a function with a finite domain
RECURSIVE SumFn(_)
SumFn(f) ==
  IF DOMAIN f = {} THEN 0
  ELSE LET x == CHOOSE x \in DOMAIN f : TRUE
       IN  f[x] + SumFn([y \in DOMAIN f \ {x} |-> f[y]])

\* row i (from 1) of matrix M: iloc[i - 1]
RowUser(M, i) == SortedUsers(M.index)[i]
Dot(M, a, b) == SumFn([m \in M.columns |-> M.cell[<<a, m>>] * M.cell[<<b, m>>]])

\* cosine_similarity(M)[i][j] squared, as a fraction <<num, den>>; the
\* similarity itself is never negative because no stored rating is
SimSq(M, i, j) ==
  LET a == RowUser(M, i)
      b == RowUser(M, j)
      n == Dot(M, a, a) * Dot(M, b, b)
  IN  IF n = 0 THEN <<0, 1>> ELSE <<Dot(M, a, b) * Dot(M, a, b), n>>

FracLeq(x, y) == x[1] * y[2] <= y[1] * x[2]

\* the outcome of a scoring helper: the movie ids it scored, or an exception
Scored(keys) == [raised |-> FALSE, keys |-> keys]
Raised == [raised |-> TRUE, keys |-> {}]

\* _get_user_based_scores: the keys of the returned dict. first is the entry
\* np.argsort(...)[::-1] puts first and [1:11] drops; the ten that follow are
\* all the other rows at these sizes.
\* user_ratings is the row of user_movie_matrix read by the caller.
UserBasedScores(hs, user_idx, user_ratings, first) ==
  LET S == hs.user_similarity_matrix
      M == hs.user_movie_matrix
      similar == {j \in 1..NUsers(S) : j # first /\ ~FracLeq(SimSq(S, user_idx, j), <<1, 100>>)}
  IN  IF S = None THEN Scored({})
      ELSE IF user_idx > NUsers(S) THEN Raised
      ELSE IF \E j \in similar : j > NUsers(M) THEN Raised
      ELSE IF \E j \in similar : \E m \in M.columns :
                M.cell[<<RowUser(M, j), m>>] > 0 /\ m \notin DOMAIN user_ratings THEN Raised
      ELSE Scored({m \in M.columns :
                     \E j \in similar : M.cell[<<RowUser(M, j), m>>] > 0 /\ user_ratings[m] = 0})

\* the rows np.argsort may put first: those of greatest similarity to user_idx
ArgMaxSim(S, user_idx) ==
  IF S = None \/ user_idx > NUsers(S) THEN {0}
  ELSE {j \in 1..NUsers(S) :
          \A l \in 1..NUsers(S) : FracLeq(SimSq(S, user_idx, l), SimSq(S, user_idx, j))}

\* _get_matrix_factorization_scores: the keys of the returned dict
MatrixFactorizationScores(hs, user_idx) ==
  LET U == hs.user_factors
      V == hs.item_factors
      M == hs.user_movie_matrix
      cols == SortedMovies(M.columns)
      unseen == {i \in 1..Len(cols) : M.cell[<<RowUser(M, user_idx), cols[i]>>] = 0}
  IN  IF U = None \/ V = None THEN Scored({})
      ELSE IF user_idx > NUsers(U) THEN Raised
      ELSE IF NComponents(U) # NComponents(V) THEN Raised
      ELSE IF user_idx > NUsers(M) THEN Raised
      ELSE IF \E i \in unseen : i > NItems(V) THEN Raised
      ELSE Scored({cols[i] : i \in unseen})

\* lines 138-174: the lists the two score dicts may be turned into. The scores
\* are real numbers the model does not compute, so the candidates may come in
\* any order; num is num_recommendations. An exception in either helper is
\* caught at line 176 and gives [].
Ranked(ub, mf, num) ==
  IF ub.raised \/ mf.raised THEN {<<>>}
  ELSE {SelectSeq(Prefix(o, num), LAMBDA m : m \in MovieIds) :
          o \in Orderings(ub.keys \cup mf.keys)}

\* the row of user u in matrix M: a Series indexed by the columns
UserRow(M, u) == [m \in M.columns |-> M.cell[<<u, m>>]]

\* get_collaborative_recommendations after its is_trained check, run without
\* interruption: the lists it may return
CollaborativeLists(hs, u, num) ==
  LET M == hs.user_movie_matrix
      user_idx == IndexOf(SortedUsers(M.index), u)
      mf == MatrixFactorizationScores(hs, user_idx)
  IN  IF M = None \/ u \notin M.index THEN {<<>>}
      ELSE UNION {Ranked(UserBasedScores(hs, user_idx, UserRow(M, u), first), mf, num) :
                    first \in ArgMaxSim(hs.user_similarity_matrix, user_idx)}

\* ------------------------------------------------- movie_recommender.py
MovieOf(id) == Dataset[CHOOSE i \in 1..Len(Dataset) : Dataset[i].id = id]

\* search_by_genre: the ids of the movies of the genre, best rated first
search_by_genre(genre, limit) ==
  LET genre_movies == SelectSeq(Dataset, LAMBDA mv : genre \in Range(mv.genres))
      sorted == SortDesc(genre_movies, LAMBDA mv : mv.vote_average * 1000000 + mv.vote_count)
  IN  Prefix([i \in 1..Len(sorted) |-> sorted[i].id], limit)

\* title_to_idx: the normalized titles of the dataset and the row of each
title_to_idx == [t \in {"Heat"} |-> 1]

\* recommend_by_title: the dicts it may return, by their keys and the ids
\* under 'recommendations'. An exact match is the only one these titles
\* need; the order of the similar movies is that of similarity_matrix, which
\* is not modelled, and [1:n+1] drops the matched movie itself.
recommend_by_title(title, num) ==
  IF title \notin DOMAIN title_to_idx
  THEN {[keys |-> <<"error", "suggestions">>, recommendations |-> <<>>]}
  ELSE {[keys |-> <<"query", "matched_movie", "other_matches", "recommendations">>,
         recommendations |-> Prefix(o, num)]
        : o \in Orderings(MovieIds \ {Dataset[title_to_idx[title]].id})}

\* get_random_movies: the samples np.random.choice(..., replace=False) may draw
get_random_movies(num_movies) == {Prefix(o, num_movies) : o \in Orderings(MovieIds)}

\* ------------------------------------- user_rating_system.py, preferences
\* the genres of the rated movies in the order genre_scores first sees them
RECURSIVE GenresSeen(_)
GenresSeen(pairs) ==
  IF pairs = <<>> THEN <<>>
  ELSE LET before == GenresSeen(SubSeq(pairs, 1, Len(pairs) - 1))
           m == pairs[Len(pairs)][1]
           mine == IF m \in MovieIds THEN MovieOf(m).genres ELSE <<>>
       IN  before \o SelectSeq(mine, LAMBDA g : g \notin Range(before))

\* get_user_preferences on the list get_user_ratings returned: the genres by
\* decreasing preference_score = round(avg * count / total, 2)
get_user_preferences(pairs) ==
  LET known == SelectSeq(pairs, LAMBDA p : p[1] \in MovieIds)
      total == Len(known)
      sum(g) == SumFn([i \in {j \in 1..Len(known) : g \in Range(MovieOf(known[j][1]).genres)}
                         |-> known[i][2]])
  IN  SortDesc(GenresSeen(pairs), LAMBDA g : RoundDiv(100 * sum(g), total))

\* ------------------------------------- hybrid_recommender.py, the fusion
\* a positional score that counts ranks from 1 instead of 0
PositionalFromOne(list, id) ==
  IF id \in Range(list) THEN <<Len(list) - IndexOf(list, id), Len(list)>> ELSE <<0, 1>>

\* the positional score (n - i) / n of the entry at position pos (from 1) of
\* a list of length n, as <<numerator, denominator>>; 0 for an absent entry
Positional(list, id) ==
  IF id \in Range(list) THEN <<Len(list) - (IndexOf(list, id) - 1), Len(list)>> ELSE <<0, 1>>

\* round(content_weight * cs + collaborative_weight * ls, 3) in thousandths,
\* for weights in hundredths
HybridScore(cw, lw, cs, ls) ==
  RoundDiv(10 * (cw * cs[1] * ls[2] + lw * ls[1] * cs[2]), cs[2] * ls[2])

\* round(score, 3) in thousandths
Component(sc) == RoundDiv(1000 * sc[1], sc[2])

\* a fusion that forgets to drop the rated movies
FuseNoFilter(hs, content, collab, rated, num) ==
  LET ids == content \o SelectSeq(collab, LAMBDA m : m \notin Range(content))
      final == [i \in 1..Len(ids) |->
                  [id |-> ids[i],
                   hybrid_score |-> HybridScore(hs.content_weight, hs.collaborative_weight,
                                                Positional(content, ids[i]),
                                                Positional(collab, ids[i])),
                   content_component |-> Component(Positional(content, ids[i])),
                   collaborative_component |-> Component(Positional(collab, ids[i]))]]
  IN  Prefix(SortDesc(final, LAMBDA mv : mv.hybrid_score), num)

\* lines 252-310 of get_hybrid_recommendations: score the union of the two
\* lists, sort by hybrid_score, drop the ids in rated, keep the first num
Fuse(hs, content, collab, rated, num) ==
  LET ids == content \o SelectSeq(collab, LAMBDA m : m \notin Range(content))
      final == [i \in 1..Len(ids) |->
                  [id |-> ids[i],
                   hybrid_score |-> HybridScore(hs.content_weight, hs.collaborative_weight,
                                                Positional(content, ids[i]),
                                                Positional(collab, ids[i])),
                   content_component |-> Component(Positional(content, ids[i])),
                   collaborative_component |-> Component(Positional(collab, ids[i]))]]
      sorted == SortDesc(final, LAMBDA mv : mv.hybrid_score)
  IN  Prefix(SelectSeq(sorted, LAMBDA mv : mv.id \notin rated), num)

\* ------------------------------------------------- the public operations
\* The caller is sequential: it makes a call when it holds no unread result,
\* and reads the result (Return) before it makes the next call.
Idle == ret.op = "none" /\ call.op = "none"

Return ==
  /\ ret.op # "none"
  /\ ret' = NoCall
  /\ UNCHANGED <<ratings, next_id, hybrid_system, sklearn, ctlVars>>

AddRating ==
  /\ Idle
  /\ \E u \in Users, m \in RatedMovies, v \in InputRatings :
       /\ ValidRating(v) => next_id <= MaxRowId
       /\ add_rating(u, m, v)

DeleteRating == Idle /\ \E u \in Users, m \in RatedMovies : delete_rating(u, m)

\* a direct call of train_collaborative_models, as demo_hybrid_system makes
Train ==
  /\ Idle
  /\ hybrid_system' = train_collaborative_models(hybrid_system, ratings, sklearn)
  /\ ret' = [NoCall EXCEPT !.op = "train"]
  /\ UNCHANGED <<ratings, next_id, sklearn, ctlVars>>

\* the model after lines 119-120: an untrained model is trained first
EnsureTrained(hs, t, lib) ==
  IF hs.is_trained THEN hs ELSE train_collaborative_models(hs, t, lib)

GetCollaborative ==
  /\ Idle
  /\ \E u \in Users, num \in 1..MaxK :
       LET hs == EnsureTrained(hybrid_system, ratings, sklearn)
       IN  \E out \in CollaborativeLists(hs, u, num) :
          /\ hybrid_system' = hs
          /\ ret' = [NoCall EXCEPT !.op = "collaborative", !.user_id = u, !.k = num,
                                   !.result = "ok", !.out = out]
          /\ UNCHANGED <<ratings, next_id, sklearn, ctlVars>>

\* lines 229-245: the content candidates when no title is given
ContentLists(t, u, limit) ==
  UNION {LET prefs == get_user_preferences(pairs)
         IN  IF prefs # <<>> THEN {search_by_genre(prefs[1], limit)}
             ELSE get_random_movies(limit)
         : pairs \in get_user_ratings(t, u)}

\* dict(get_user_ratings(user_id)): its keys
RatedIds(t, u) == {r.movie_id : r \in {x \in BagToSet(t) : x.user_id = u}}

\* With a title, content_recommendations is the dict recommend_by_title
\* returns; line 256 iterates over its keys and line 257 indexes a str with
\* 'id', which raises TypeError after the collaborative call has run.
GetHybrid ==
  /\ Idle
  /\ \E u \in Users, title \in Titles, num \in 1..MaxK :
    LET hs == EnsureTrained(hybrid_system, ratings, sklearn)
    IN  /\ hybrid_system' = hs
        /\ UNCHANGED <<ratings, next_id, sklearn, ctlVars>>
        /\ IF title # ""
           THEN \E content_recommendations \in recommend_by_title(title, 2 * num) :
                  content_recommendations.keys # <<>>
                  /\ ret' = [NoCall EXCEPT !.op = "hybrid", !.user_id = u, !.k = num,
                                           !.title = title, !.result = "TypeError"]
           ELSE LET content_lists == ContentLists(ratings, u, 2 * num)
                    collab_lists == CollaborativeLists(hs, u, 2 * num)
                IN  \E content \in content_lists, collab \in collab_lists :
                      ret' = [NoCall EXCEPT !.op = "hybrid", !.user_id = u, !.k = num,
                                            !.result = "ok", !.content = content,
                                            !.collab = collab,
                                            !.out = Fuse(hs, content, collab,
                                                         RatedIds(ratings, u), num)]

\* ------------------------------------------------- realtime_updater.py
\* a pickle file of save_models, or the absence of the file
NoFile == [exists |-> FALSE, models |-> Untrained(InitWeights)]
save_models(hs) == [exists |-> TRUE, models |-> hs]

\* load_models: every field is replaced by the pickled one
load_models(hs, file) == file.models

\* an update event: its 'type', its 'rating' or 'feedback' as value; n
\* numbers the events in the order they were enqueued
Event(type, value, n) == [type |-> type, value |-> value, n |-> n]

\* the state of a thread: the loop (kind "loop") or a thread started by
\* _trigger_immediate_update (kind "immediate"); batch is updates_processed,
\* sparse the local sparse_matrix of train_collaborative_models; pre (the
\* model when the cycle began) and fault (the step that raised) are history,
\* and so are q0 and c0 (update_queue and update_count when the cycle began)
\* and l0 (last_update when the cycle began) and after_stop ("stopped" once
\* stop_real_time_updates has run beside the loop, "iterated" once the loop
\* has gone on after that)
Thread(kind, pc) ==
  [kind |-> kind, pc |-> pc, batch |-> <<>>, sparse |-> None,
   pre |-> Untrained(InitWeights), fault |-> "", q0 |-> <<>>, c0 |-> 0,
   l0 |-> 0, after_stop |-> "no"]

\* the caller is in no call
NoJob ==
  [op |-> "none", pc |-> "", user_id |-> "", k |-> 0, loaded |-> 0, M |-> None,
   ub |-> Scored({}), reads |-> <<>>, pre |-> <<>>, dirty |-> FALSE, overlap |-> 0]

Init ==
  /\ ratings = EmptyBag
  /\ next_id = 1
  /\ hybrid_system = Untrained(InitWeights)
  /\ sklearn \in {"strict", "lenient"}
  /\ ret = NoCall
  /\ call = NoJob
  /\ update_queue = <<>>
  /\ update_count = 0
  /\ is_running = FALSE
  /\ last_update = 0
  /\ now = 0
  /\ threads = EmptyBag
  /\ newest_backup = NoFile
  /\ latest = NoFile
  /\ metrics = <<>>
  /\ enq = 0
  /\ on_model_updated = "None"
  /\ on_update_failed = "None"

Next == AddRating \/ DeleteRating \/ Train \/ GetCollaborative \/ GetHybrid \/ Return

Spec == Init /\ [][Next]_vars

\* ------------------------------- realtime_updater.py, the caller's side
\* Between two steps of a call other threads may run. A returned result is
\* read at once: no thread moves while ret holds one.
Running(t) == ret.op = "none" /\ t \in BagToSet(threads)

Replace(t, t2) == (threads (-) SetToBag({t})) (+) SetToBag({t2})
\* the live threads of a kind
Live(kind) == {t \in BagToSet(threads) : t.kind = kind}
NLive(kind) == BagCardinality([t \in Live(kind) |-> threads[t]])
CanSpawn(kind) == NLive(kind) < (IF kind = "loop" THEN MaxLoops ELSE MaxThreads)
Spawn(t) == threads (+) SetToBag({t})

\* start_real_time_updates: nothing when is_running, else a new loop thread
StartRealTimeUpdates ==
  /\ Idle
  /\ IF is_running
     THEN UNCHANGED <<is_running, threads>>
     ELSE /\ CanSpawn("loop")
          /\ is_running' = TRUE
          /\ threads' = Spawn(Thread("loop", "loop_check"))
  /\ ret' = [NoCall EXCEPT !.op = "start_real_time_updates"]
  /\ UNCHANGED <<cbVars, ratings, next_id, hybrid_system, sklearn, call, update_queue,
                 update_count, last_update, now, newest_backup, latest, metrics, enq>>

\* history: a loop thread beside which stop_real_time_updates has run
Stopped(t) ==
  IF t.kind = "loop" /\ t.after_stop = "no" THEN [t EXCEPT !.after_stop = "stopped"] ELSE t

\* stop_real_time_updates: the flag is cleared; join(timeout=5) returns when
\* the loop thread has ended or the five seconds are over
StopRealTimeUpdates ==
  /\ Idle
  /\ is_running' = FALSE
  /\ threads' = BagOfAll(Stopped, threads)
  /\ ret' = [NoCall EXCEPT !.op = "stop_real_time_updates"]
  /\ UNCHANGED <<cbVars, ratings, next_id, hybrid_system, sklearn, call, update_queue,
                 update_count, last_update, now, newest_backup, latest, metrics, enq>>

\* the caller assigns the two callback attributes, as demo_realtime_system
\* does after constructing the updater
RegisterCallbacks ==
  /\ Idle
  /\ on_model_updated = "None" /\ on_update_failed = "None"
  /\ on_model_updated' \in {"returns", "raises"}
  /\ on_update_failed' \in {"returns", "raises"}
  /\ UNCHANGED <<ratings, next_id, hybrid_system, sklearn, ret, call, update_queue,
                 update_count, is_running, last_update, now, threads, newest_backup,
                 latest, metrics, enq>>

\* force_update: _trigger_immediate_update starts a thread
ForceUpdate ==
  /\ Idle
  /\ CanSpawn("immediate")
  /\ threads' = Spawn(Thread("immediate", "begin"))
  /\ ret' = [NoCall EXCEPT !.op = "force_update"]
  /\ UNCHANGED <<cbVars, ratings, next_id, hybrid_system, sklearn, call, update_queue,
                 update_count, is_running, last_update, now, newest_backup, latest,
                 metrics, enq>>

\* queue_rating_update and queue_feedback_update, line 82 / 102: the put
Enqueue(op, type, value) ==
  /\ Idle
  /\ enq < MaxEvents
  /\ update_queue' = Append(update_queue, Event(type, value, enq + 1))
  /\ enq' = enq + 1
  /\ call' = [NoJob EXCEPT !.op = op, !.pc = "load"]
  /\ UNCHANGED <<cbVars, ratings, next_id, hybrid_system, sklearn, ret, update_count,
                 is_running, last_update, now, threads, newest_backup, latest, metrics>>

QueueRatingUpdate ==
  \E rating \in QueuedRatings : Enqueue("queue_rating_update", "rating", rating)
QueueFeedbackUpdate ==
  \E feedback \in Feedbacks : Enqueue("queue_feedback_update", "feedback", feedback)

\* line 83 / 103, self.update_count += 1: the read ...
EnqueueLoad ==
  /\ ret.op = "none" /\ call.pc = "load"
  /\ call' = [call EXCEPT !.loaded = update_count, !.pc = "store"]
  /\ UNCHANGED <<cbVars, ratings, next_id, hybrid_system, sklearn, ret, update_queue,
                 update_count, is_running, last_update, now, threads, newest_backup,
                 latest, metrics, enq>>

\* ... and the write. queue_feedback_update returns after it.
EnqueueStore ==
  /\ ret.op = "none" /\ call.pc = "store"
  /\ update_count' = call.loaded + 1
  /\ IF call.op = "queue_rating_update"
     THEN call' = [call EXCEPT !.loaded = call.loaded + 1, !.pc = "check"] /\ UNCHANGED ret
     ELSE /\ call' = NoJob
          /\ ret' = [NoCall EXCEPT !.op = call.op, !.wrote = call.loaded + 1]
  /\ UNCHANGED <<cbVars, ratings, next_id, hybrid_system, sklearn, update_queue, is_running,
                 last_update, now, threads, newest_backup, latest, metrics, enq>>

\* lines 88-89 of queue_rating_update: the threshold test and the trigger
EnqueueCheck ==
  /\ ret.op = "none" /\ call.pc = "check"
  /\ IF update_count >= min_updates_threshold
     THEN CanSpawn("immediate") /\ threads' = Spawn(Thread("immediate", "begin"))
     ELSE UNCHANGED threads
  /\ ret' = [NoCall EXCEPT !.op = call.op, !.wrote = call.loaded,
                           !.launched = (update_count >= min_updates_threshold)]
  /\ call' = NoJob
  /\ UNCHANGED <<cbVars, ratings, next_id, hybrid_system, sklearn, update_queue, update_count,
                 is_running, last_update, now, newest_backup, latest, metrics, enq>>

\* a thread is inside train_collaborative_models, past the rebuilt matrix
InTrain(t) == t.pc \in {"usim", "isim", "svd", "trained"}

\* what a scoring call reads of the model, in the order it reads it
Reads(hs) ==
  <<hs.user_movie_matrix, hs.user_similarity_matrix, hs.user_movie_matrix,
    hs.user_factors, hs.item_factors, hs.user_movie_matrix>>

CollaborativeResult(out) ==
  [NoCall EXCEPT !.op = "collaborative", !.user_id = call.user_id, !.k = call.k,
                 !.result = "ok", !.out = out, !.pre = call.pre,
                 !.clean = (~call.dirty /\ call.overlap <= 1)]

\* get_collaborative_recommendations beside running threads, lines 119-130:
\* the is_trained check and the reads of user_movie_matrix
ScoreBegin ==
  /\ Idle
  /\ \E u \in Users, num \in 1..MaxK :
    LET hs == EnsureTrained(hybrid_system, ratings, sklearn)
        M == hs.user_movie_matrix
        job == [NoJob EXCEPT !.op = "collaborative", !.pc = "user_based", !.user_id = u,
                             !.k = num, !.M = M, !.reads = <<M>>, !.pre = Reads(hs),
                             !.dirty = \E t \in BagToSet(threads) : InTrain(t)]
    IN  /\ hybrid_system' = hs
        /\ IF M = None \/ u \notin M.index
           THEN /\ ret' = [NoCall EXCEPT !.op = "collaborative", !.user_id = u, !.k = num,
                                         !.result = "ok", !.pre = Reads(hs)]
                /\ UNCHANGED call
           ELSE call' = job /\ UNCHANGED ret
        /\ UNCHANGED <<cbVars, ratings, next_id, sklearn, update_queue, update_count, is_running,
                       last_update, now, threads, newest_backup, latest, metrics, enq>>

\* line 133, _get_user_based_scores on the model as it is now
ScoreUserBased ==
  /\ ret.op = "none" /\ call.pc = "user_based"
  /\ LET user_idx == IndexOf(SortedUsers(call.M.index), call.user_id)
     IN  \E first \in ArgMaxSim(hybrid_system.user_similarity_matrix, user_idx) :
           LET ub == UserBasedScores(hybrid_system, user_idx,
                                     UserRow(call.M, call.user_id), first)
               reads == call.reads \o << hybrid_system.user_similarity_matrix,
                                         hybrid_system.user_movie_matrix >>
           IN  IF ub.raised
               THEN /\ ret' = [CollaborativeResult(<<>>) EXCEPT !.reads = reads]
                    /\ call' = NoJob
               ELSE /\ call' = [call EXCEPT !.pc = "factorization", !.ub = ub,
                                            !.reads = reads]
                    /\ UNCHANGED ret
  /\ UNCHANGED <<cbVars, ratings, next_id, hybrid_system, sklearn, update_queue, update_count,
                 is_running, last_update, now, threads, newest_backup, latest, metrics,
                 enq>>

\* line 136, _get_matrix_factorization_scores on the model as it is now, and
\* the rest of the call
ScoreFactorization ==
  /\ ret.op = "none" /\ call.pc = "factorization"
  /\ LET user_idx == IndexOf(SortedUsers(call.M.index), call.user_id)
         mf == MatrixFactorizationScores(hybrid_system, user_idx)
         reads == call.reads \o << hybrid_system.user_factors, hybrid_system.item_factors,
                                   hybrid_system.user_movie_matrix >>
     IN  \E out \in Ranked(call.ub, mf, call.k) :
           ret' = [CollaborativeResult(out) EXCEPT !.reads = reads]
  /\ call' = NoJob
  /\ UNCHANGED <<cbVars, ratings, next_id, hybrid_system, sklearn, update_queue, update_count,
                 is_running, last_update, now, threads, newest_backup, latest, metrics,
                 enq>>

\* ------------------------------- realtime_updater.py, the updater's threads
\* the variables no step of a thread writes
storeVars == <<ratings, next_id, sklearn, ret, is_running, now, enq, cbVars>>

\* a step of thread t that changes only the thread itself
Goto(t, t2) ==
  /\ threads' = Replace(t, t2)
  /\ UNCHANGED <<storeVars, hybrid_system, call, update_queue, update_count, last_update,
                 newest_backup, latest, metrics>>

\* a should_update that asks for both the interval and the threshold
should_update_both(time_since_last_update, count) ==
  time_since_last_update >= update_interval /\ count >= min_updates_threshold

\* lines 114-117, should_update
should_update(time_since_last_update, count) ==
  time_since_last_update >= update_interval \/ count >= min_updates_threshold

\* _update_loop, lines 109-121: the loop ends when is_running is false; a
\* cycle is run when should_update holds and the queue is not empty
LoopCheck ==
  \E t \in BagToSet(threads) :
    /\ Running(t) /\ t.pc = "loop_check"
    /\ LET due == should_update(now - last_update, update_count)
       IN  IF ~is_running
           THEN /\ threads' = threads (-) SetToBag({t})
                /\ UNCHANGED <<storeVars, hybrid_system, call, update_queue, update_count,
                               last_update, newest_backup, latest, metrics>>
           ELSE LET on == [t EXCEPT !.after_stop = IF @ = "no" THEN "no" ELSE "iterated"]
                IN  IF due /\ update_queue # <<>>
                    THEN Goto(t, [on EXCEPT !.pc = "begin"])
                    ELSE Goto(t, [on EXCEPT !.pc = "sleep"])

\* line 124, time.sleep
LoopSleep ==
  \E t \in BagToSet(threads) :
    /\ Running(t) /\ t.pc = "sleep"
    /\ Goto(t, [t EXCEPT !.pc = "loop_check"])

\* lines 126-130, the loop's handler: an exception of on_update_failed
\* leaves it and ends the thread; otherwise time.sleep(60) and the next test
LoopExcept ==
  \E t \in BagToSet(threads) :
    /\ Running(t) /\ t.pc = "loop_except"
    /\ IF on_update_failed = "raises"
       THEN /\ threads' = threads (-) SetToBag({t})
            /\ UNCHANGED <<storeVars, hybrid_system, call, update_queue, update_count,
                           last_update, newest_backup, latest, metrics>>
       ELSE Goto(t, [Thread("loop", "sleep") EXCEPT !.after_stop = t.after_stop])

\* _perform_model_update, lines 139-150: the test of the while loop at line
\* 145, and line 149 when the queue is found empty
\* a cycle that goes on to the backup with an empty batch too
AfterDrainAlways(batch) == "backup"

\* lines 149-150: with an empty updates_processed the cycle returns
AfterDrain(batch) == IF batch = <<>> THEN "return" ELSE "backup"

DrainCheck ==
  \E t \in BagToSet(threads) :
    /\ Running(t) /\ t.pc \in {"begin", "drain"}
    /\ LET c == IF t.pc = "begin"
                THEN [t EXCEPT !.batch = <<>>, !.sparse = None, !.fault = "",
                               !.pre = hybrid_system, !.q0 = update_queue,
                               !.c0 = update_count, !.l0 = last_update]
                ELSE t
       IN  IF update_queue # <<>> THEN Goto(t, [c EXCEPT !.pc = "get"])
           ELSE Goto(t, [c EXCEPT !.pc = AfterDrain(c.batch)])

\* line 146, update_queue.get(): it blocks while the queue is empty
DrainGet ==
  \E t \in BagToSet(threads) :
    /\ Running(t) /\ t.pc = "get"
    /\ update_queue # <<>>
    /\ update_queue' = Tail(update_queue)
    /\ threads' = Replace(t, [t EXCEPT !.batch = Append(t.batch, Head(update_queue)),
                                       !.pc = "drain"])
    /\ UNCHANGED <<storeVars, hybrid_system, call, update_count, last_update,
                   newest_backup, latest, metrics>>

\* line 153, _backup_current_models: save_models reports a failed write and
\* returns, and so does the backup
Backup ==
  \E t \in BagToSet(threads), written \in BOOLEAN :
    /\ Running(t) /\ t.pc = "backup"
    /\ newest_backup' = IF written THEN save_models(hybrid_system) ELSE newest_backup
    /\ threads' = Replace(t, [t EXCEPT !.pc = "train"])
    /\ UNCHANGED <<storeVars, hybrid_system, call, update_queue, update_count,
                   last_update, latest, metrics>>

\* a scoring call in progress sees one more training begin
Overlapped(job) ==
  IF job.op = "collaborative" THEN [job EXCEPT !.overlap = job.overlap + 1] ELSE job

\* line 156, train_collaborative_models up to line 76: the print of line 72
\* may raise; build_user_movie_matrix stores the new matrix
TrainBuild ==
  \E t \in BagToSet(threads), raised \in BOOLEAN :
    /\ Running(t) /\ t.pc = "train"
    /\ LET sparse == build_user_movie_matrix(ratings)
       IN  IF raised
           THEN /\ threads' = Replace(t, [t EXCEPT !.pc = "except", !.fault = "train"])
                /\ UNCHANGED <<hybrid_system, call>>
           ELSE IF sparse = None
           THEN /\ threads' = Replace(t, [t EXCEPT !.pc = "save"])
                /\ UNCHANGED <<hybrid_system, call>>
           ELSE /\ threads' = Replace(t, [t EXCEPT !.pc = "usim", !.sparse = sparse])
                /\ hybrid_system' = TrainMatrix(hybrid_system, sparse)
                /\ call' = Overlapped(call)
    /\ UNCHANGED <<storeVars, update_queue, update_count, last_update, newest_backup,
                   latest, metrics>>

\* lines 78-111: the stores of the similarity matrices and of the factors
TrainStore ==
  \E t \in BagToSet(threads) :
    /\ Running(t) /\ t.pc \in {"usim", "isim", "svd"}
    /\ hybrid_system' = CASE t.pc = "usim" -> TrainUserSim(hybrid_system, t.sparse)
                          [] t.pc = "isim" -> TrainItemSim(hybrid_system, t.sparse)
                          [] t.pc = "svd" -> TrainSvd(hybrid_system, t.sparse, sklearn)
    /\ threads' = Replace(t, [t EXCEPT !.pc = CASE t.pc = "usim" -> "isim"
                                                [] t.pc = "isim" -> "svd"
                                                [] t.pc = "svd" -> "trained"])
    /\ UNCHANGED <<storeVars, call, update_queue, update_count, last_update,
                   newest_backup, latest, metrics>>

\* lines 113-114: is_trained is set; the print of line 114 may raise
TrainFinish ==
  \E t \in BagToSet(threads), raised \in BOOLEAN :
    /\ Running(t) /\ t.pc = "trained"
    /\ hybrid_system' = TrainDone(hybrid_system)
    /\ threads' = Replace(t, IF raised THEN [t EXCEPT !.pc = "except", !.fault = "train"]
                             ELSE [t EXCEPT !.pc = "save"])
    /\ UNCHANGED <<storeVars, call, update_queue, update_count, last_update,
                   newest_backup, latest, metrics>>

\* line 159, save_models('models/hybrid_models_latest.pkl')
SaveLatest ==
  \E t \in BagToSet(threads), written \in BOOLEAN :
    /\ Running(t) /\ t.pc = "save"
    /\ latest' = IF written THEN save_models(hybrid_system) ELSE latest
    /\ threads' = Replace(t, [t EXCEPT !.pc = "bookkeep"])
    /\ UNCHANGED <<storeVars, hybrid_system, call, update_queue, update_count,
                   last_update, newest_backup, metrics>>

\* lines 162-170: last_update and the reset of update_count
Bookkeep ==
  \E t \in BagToSet(threads) :
    /\ Running(t) /\ t.pc = "bookkeep"
    /\ last_update' = now
    /\ update_count' = 0
    /\ threads' = Replace(t, [t EXCEPT !.pc = "metrics"])
    /\ UNCHANGED <<storeVars, hybrid_system, call, update_queue, newest_backup, latest,
                   metrics>>

\* lines 173-177: on_model_updated, when registered, is called and may
\* raise; _log_performance_metrics appends one record, or reports a failed
\* write and returns
LogMetrics ==
  \E t \in BagToSet(threads), written \in BOOLEAN :
    /\ Running(t) /\ t.pc = "metrics"
    /\ IF on_model_updated = "raises"
       THEN /\ UNCHANGED metrics
            /\ threads' = Replace(t, [t EXCEPT !.pc = "except",
                                               !.fault = "on_model_updated"])
       ELSE /\ metrics' = IF written THEN Append(metrics, Len(t.batch)) ELSE metrics
            /\ threads' = Replace(t, [t EXCEPT !.pc = "return"])
    /\ UNCHANGED <<storeVars, hybrid_system, call, update_queue, update_count,
                   last_update, newest_backup, latest>>

\* lines 179-183, _restore_backup_models: the most recent backup, when there
\* is one, is loaded; load_models reports a failed read and returns. Then
\* on_update_failed, when registered, is called: its exception leaves
\* _perform_model_update, into the handler of the loop or out of the thread
Restore ==
  \E t \in BagToSet(threads), loaded \in BOOLEAN :
    /\ Running(t) /\ t.pc = "except"
    /\ IF newest_backup.exists /\ loaded
       THEN /\ hybrid_system' = load_models(hybrid_system, newest_backup)
            /\ call' = Overlapped(Overlapped(call))
       ELSE UNCHANGED <<hybrid_system, call>>
    /\ threads' = Replace(t, [t EXCEPT !.pc = IF on_update_failed = "raises"
                                                 /\ t.kind = "loop"
                                              THEN "loop_except" ELSE "return"])
    /\ UNCHANGED <<storeVars, update_queue, update_count, last_update, newest_backup,
                   latest, metrics>>

\* _perform_model_update returns: to the loop's sleep, or the thread ends
CycleReturn ==
  \E t \in BagToSet(threads) :
    /\ Running(t) /\ t.pc = "return"
    /\ threads' = IF t.kind = "loop"
                  THEN Replace(t, [Thread("loop", "sleep") EXCEPT
                                     !.after_stop = t.after_stop])
                  ELSE threads (-) SetToBag({t})
    /\ UNCHANGED <<storeVars, hybrid_system, call, update_queue, update_count,
                   last_update, newest_backup, latest, metrics>>

\* datetime.now() advances
Tick ==
  /\ ret.op = "none"
  /\ now < MaxTime
  /\ now' = now + 1
  /\ UNCHANGED <<cbVars, ratings, next_id, hybrid_system, sklearn, ret, call, update_queue,
                 update_count, is_running, last_update, threads, newest_backup, latest,
                 metrics, enq>>

\* RealTimeModelUpdater.__init__ on a rating system and a hybrid system that
\* have been in use (as advanced_system.py constructs it): the store holds
\* ratings, and the model is untrained or was trained before the last rating
\* was added. These stores have two users and two movies, on which the
\* scikit-learn builds agree.
StoreAtTraining == InsertOrReplace(InsertOrReplace(EmptyBag, "alice", 1, 5), "bob", 2, 5)
StoreInUse == InsertOrReplace(StoreAtTraining, "alice", 2, 5)

InitRT ==
  /\ ratings = StoreInUse
  /\ next_id = BagCardinality(ratings) + 1
  /\ sklearn = "strict"
  /\ hybrid_system \in {Untrained(InitWeights),
                        train_collaborative_models(Untrained(InitWeights), StoreAtTraining,
                                                   sklearn)}
  /\ ret = NoCall
  /\ call = NoJob
  /\ update_queue = <<>>
  /\ update_count = 0
  /\ is_running = FALSE
  /\ last_update = 0
  /\ now = 0
  /\ threads = EmptyBag
  /\ newest_backup = NoFile
  /\ latest = NoFile
  /\ metrics = <<>>
  /\ enq = 0
  /\ on_model_updated = "None"
  /\ on_update_failed = "None"

\* the updater used without its loop: events are enqueued, cycles are
\* started by the threshold and by force_update, and recommendations are
\* computed meanwhile
NextRT ==
  \/ Return \/ ForceUpdate
  \/ QueueRatingUpdate \/ QueueFeedbackUpdate \/ EnqueueLoad \/ EnqueueStore \/ EnqueueCheck
  \/ ScoreBegin \/ ScoreUserBased \/ ScoreFactorization
  \/ DrainCheck \/ DrainGet \/ Backup \/ TrainBuild \/ TrainStore \/ TrainFinish
  \/ SaveLatest \/ Bookkeep \/ LogMetrics \/ Restore \/ CycleReturn

SpecRT == InitRT /\ [][NextRT]_vars

\* the updater constructed on a store in use and a model not yet trained
InitLoop ==
  /\ InitRT
  /\ hybrid_system = Untrained(InitWeights)

\* the updater with its loop, started and stopped by the caller while
\* feedback is enqueued; no callback is registered, and the cycles the loop
\* runs are those update_count calls for
NextStartStop ==
  \/ Return \/ StartRealTimeUpdates \/ StopRealTimeUpdates
  \/ QueueFeedbackUpdate \/ EnqueueLoad \/ EnqueueStore
  \/ LoopCheck \/ LoopSleep
  \/ DrainCheck \/ DrainGet \/ Backup \/ TrainBuild \/ TrainStore \/ TrainFinish
  \/ SaveLatest \/ Bookkeep \/ LogMetrics \/ Restore \/ CycleReturn

SpecStartStop == InitLoop /\ [][NextStartStop]_vars

\* the updater with callbacks registered and its loop started and left
\* running
NextLoop ==
  \/ Return \/ RegisterCallbacks \/ StartRealTimeUpdates
  \/ QueueFeedbackUpdate \/ EnqueueLoad \/ EnqueueStore
  \/ LoopCheck \/ LoopSleep \/ LoopExcept
  \/ DrainCheck \/ DrainGet \/ Backup \/ TrainBuild \/ TrainStore \/ TrainFinish
  \/ SaveLatest \/ Bookkeep \/ LogMetrics \/ Restore \/ CycleReturn
  \/ Tick

SpecLoop == InitLoop /\ [][NextLoop]_vars

\* the loop of a started updater on which no callback is registered
NextWake ==
  \/ Return \/ StartRealTimeUpdates \/ QueueFeedbackUpdate \/ EnqueueLoad \/ EnqueueStore
  \/ LoopCheck \/ LoopSleep
  \/ DrainCheck \/ DrainGet \/ Backup \/ TrainBuild \/ TrainStore \/ TrainFinish
  \/ SaveLatest \/ Bookkeep \/ LogMetrics \/ Restore \/ CycleReturn
  \/ Tick

SpecWake == InitLoop /\ [][NextWake]_vars

\* force_update called while no cycle is under way
ForceUpdateAlone == threads = EmptyBag /\ ForceUpdate

\* an updater that was not started: feedback enqueues, and force_update
\* calls that each find the previous cycle finished
NextForce ==
  \/ Return \/ ForceUpdateAlone \/ QueueFeedbackUpdate \/ EnqueueLoad \/ EnqueueStore
  \/ DrainCheck \/ DrainGet \/ Backup \/ TrainBuild \/ TrainStore \/ TrainFinish
  \/ SaveLatest \/ Bookkeep \/ LogMetrics \/ Restore \/ CycleReturn

SpecForce == InitLoop /\ [][NextForce]_vars

\* a started updater whose loop runs beside the cycles of force_update
NextConcurrent ==
  \/ Return \/ StartRealTimeUpdates \/ ForceUpdate \/ QueueFeedbackUpdate
  \/ EnqueueLoad \/ EnqueueStore \/ LoopCheck \/ LoopSleep
  \/ DrainCheck \/ DrainGet \/ Backup \/ TrainBuild \/ TrainStore \/ TrainFinish
  \/ SaveLatest \/ Bookkeep \/ LogMetrics \/ Restore \/ CycleReturn

SpecConcurrent == InitLoop /\ [][NextConcurrent]_vars

\* datetime.now() advances, here as long as update_interval has not elapsed
\* since last_update: later readings make no difference to should_update
Elapse ==
  /\ ret.op = "none"
  /\ now - last_update < update_interval
  /\ now' = now + 1
  /\ UNCHANGED <<cbVars, ratings, next_id, hybrid_system, sklearn, ret, call, update_queue,
                 update_count, is_running, last_update, threads, newest_backup, latest,
                 metrics, enq>>

\* a step of a thread of the updater
ThreadStep ==
  \/ LoopCheck \/ LoopSleep \/ LoopExcept
  \/ DrainCheck \/ DrainGet \/ Backup \/ TrainBuild \/ TrainStore \/ TrainFinish
  \/ SaveLatest \/ Bookkeep \/ LogMetrics \/ Restore \/ CycleReturn

NextLive ==
  \/ Return \/ RegisterCallbacks \/ StartRealTimeUpdates \/ QueueFeedbackUpdate
  \/ EnqueueLoad \/ EnqueueStore \/ ThreadStep \/ Elapse

\* the loop of a started updater under a fair scheduler: a thread that can
\* run again and again does run, time passes, and the caller's calls return
SpecLive ==
  /\ InitLoop /\ [][NextLive]_vars
  /\ SF_vars(ThreadStep) /\ SF_vars(Elapse)
  /\ WF_vars(Return) /\ WF_vars(EnqueueLoad) /\ WF_vars(EnqueueStore)

\* ------------------------------------------- AdaptiveLearningSystem
\* weights are in hundredths: learning_rate 0.01 is 1, the cap 0.8 is 80
learning_rate == 1

\* (content_weight, collaborative_weight) pairs a system is constructed with
InputWeights == {<<70, 30>>, <<60, 40>>, <<21, 79>>, <<10, 90>>, <<0, 0>>}

FeedbackBatches ==
  UNION {[1..n -> Feedbacks] : n \in 0..MaxFeedback}

\* adapt_content_weights: nothing on an empty batch; with a success rate
\* (like/watched over all) under 0.6 the collaborative weight becomes
\* min(0.8, old + learning_rate) and the content weight 1.0 minus that
adapt_content_weights(hs, feedback_data) ==
  IF feedback_data = <<>> THEN hs
  ELSE LET positive_feedback ==
             Cardinality({i \in DOMAIN feedback_data :
                            feedback_data[i] \in {"like", "watched"}})
           total_feedback == Len(feedback_data)
           new_collab_weight == Min(80, hs.collaborative_weight + learning_rate)
       IN  IF 10 * positive_feedback < 6 * total_feedback
           THEN [hs EXCEPT !.collaborative_weight = new_collab_weight,
                           !.content_weight = 100 - new_collab_weight]
           ELSE hs

AdaptContentWeights ==
  /\ Idle
  /\ \E feedback_data \in FeedbackBatches :
       /\ hybrid_system' = adapt_content_weights(hybrid_system, feedback_data)
       /\ ret' = [NoCall EXCEPT !.op = "adapt_content_weights",
                                !.reads = feedback_data,
                                !.pre = <<hybrid_system.content_weight,
                                          hybrid_system.collaborative_weight>>]
  /\ UNCHANGED <<ratings, next_id, sklearn, ctlVars>>

InitAdapt ==
  /\ ratings = EmptyBag
  /\ next_id = 1
  /\ hybrid_system \in {Untrained(w) : w \in InputWeights}
  /\ sklearn = "strict"
  /\ ret = NoCall
  /\ call = NoJob
  /\ update_queue = <<>>
  /\ update_count = 0
  /\ is_running = FALSE
  /\ last_update = 0
  /\ now = 0
  /\ threads = EmptyBag
  /\ newest_backup = NoFile
  /\ latest = NoFile
  /\ metrics = <<>>
  /\ enq = 0
  /\ on_model_updated = "None"
  /\ on_update_failed = "None"

NextAdapt == Return \/ AdaptContentWeights

SpecAdapt == InitAdapt /\ [][NextAdapt]_vars

\* ------------------------------------------------------------ properties
\* C1: get_hybrid_recommendations never returns a movie that is in the
\* user's current rating list.
C1_HybridExcludesRated ==
  ret.op = "hybrid" =>
    \A i \in 1..Len(ret.out) : ret.out[i].id \notin RatedIds(ratings, ret.user_id)

\* a call whose collaborative list offered a movie the user has rated and
\* that still returned something
C1_Witness ==
  /\ ret.op = "hybrid" /\ ret.out # <<>>
  /\ Range(ret.collab) \cap RatedIds(ratings, ret.user_id) # {}
  /\ Range(ret.content) \cap RatedIds(ratings, ret.user_id) # {}

\* C2: get_collaborative_recommendations never returns a movie id that is in
\* the user's rating list, whatever the rating value and whenever it was added.
C2_CollaborativeExcludesRated ==
  ret.op = "collaborative" =>
    \A i \in 1..Len(ret.out) : ret.out[i] \notin RatedIds(ratings, ret.user_id)

\* C3: the enqueue that brings update_count to min_updates_threshold, of a
\* rating or of a feedback, starts an update thread at once; an enqueue that
\* leaves update_count below the threshold starts none.
C3_ThresholdEnqueueLaunches ==
  ret.op \in {"queue_rating_update", "queue_feedback_update"} =>
    /\ ret.wrote = min_updates_threshold => ret.launched
    /\ ret.wrote < min_updates_threshold => ~ret.launched

\* the fields of the model a training computes
ModelState(hs) ==
  <<hs.user_movie_matrix, hs.user_similarity_matrix, hs.item_similarity_matrix,
    hs.user_factors, hs.item_factors, hs.is_trained>>

\* C4: when a cycle in which train_collaborative_models raised ends, the
\* model is what it was when the cycle began, also when the backup of the
\* cycle was not written.
C4_TrainingFaultRestoresModel ==
  \A t \in BagToSet(threads) :
    (t.pc = "return" /\ t.fault = "train") => ModelState(hybrid_system) = ModelState(t.pre)

\* C5: a scoring call beside which one training ran, from its first store to
\* its last, read the matrix, the user similarities and the factors all of
\* the model before that training or all of the model after it.
C5_ScoringReadsOneTraining ==
  (/\ ret.op = "collaborative" /\ ret.reads # <<>> /\ ret.clean
   /\ \A t \in BagToSet(threads) : ~InTrain(t)) =>
    \/ ret.reads = SubSeq(ret.pre, 1, Len(ret.reads))
    \/ ret.reads = SubSeq(Reads(hybrid_system), 1, Len(ret.reads))

\* C6: add_rating with a value outside [0,10] raises and leaves the table
\* unchanged, and every stored rating is within [0,10].
C6_InvalidRatingRejected ==
  [][/\ \A r \in BagToSet(ratings') : 0 <= r.rating /\ r.rating <= 10
     /\ (ret'.op = "add_rating" /\ ~(0 <= ret'.rating /\ ret'.rating <= 10)) =>
          (ret'.result = "ValueError" /\ ratings' = ratings)]_vars

\* a rejected add_rating on a table that holds ratings
C6_Witness ==
  /\ ret.op = "add_rating" /\ ret.result = "ValueError" /\ ret.rating > 10
  /\ ratings # EmptyBag

\* C7: the table holds at most one row per (user_id, movie_id); an add_rating
\* on an existing key replaces its value and leaves every other key's rows
\* as they were.
C7_OneRatingPerKey ==
  [][/\ \A u \in Users, m \in RatedMovies :
          SumFn([r \in RowsOf(ratings', u, m) |-> ratings'[r]]) <= 1
     /\ (ret'.op = "add_rating" /\ ret'.result = "True") =>
          /\ RowsOf(ratings', ret'.user_id, ret'.movie_id)
               = {Row(ret'.user_id, ret'.movie_id, ret'.rating)}
          /\ \A u \in Users, m \in RatedMovies :
               <<u, m>> # <<ret'.user_id, ret'.movie_id>> =>
                 /\ RowsOf(ratings', u, m) = RowsOf(ratings, u, m)
                 /\ \A r \in RowsOf(ratings, u, m) : ratings'[r] = ratings[r]]_vars

\* an add_rating that replaced a stored value while another key held a rating
C7_Witness ==
  /\ ret.op = "add_rating" /\ ret.result = "True" /\ ret.replaced = 1
  /\ BagCardinality(ratings) >= 2

\* C8: after add_rating(u, m, v) with v in [0,10], get_user_ratings(u) has
\* exactly one pair for m and its value is v; delete_rating(u, m) returns True
\* exactly when a rating for (u, m) existed, and afterwards get_user_ratings(u)
\* has no pair for m.
C8_PutListDelete ==
  [][/\ (ret'.op = "add_rating" /\ 0 <= ret'.rating /\ ret'.rating <= 10) =>
          \A l \in get_user_ratings(ratings', ret'.user_id) :
            /\ Cardinality({i \in 1..Len(l) : l[i][1] = ret'.movie_id}) = 1
            /\ \A i \in 1..Len(l) : l[i][1] = ret'.movie_id => l[i][2] = ret'.rating
     /\ ret'.op = "delete_rating" =>
          /\ ret'.result = "True" <=> RowsOf(ratings, ret'.user_id, ret'.movie_id) # {}
          /\ \A l \in get_user_ratings(ratings', ret'.user_id) :
               \A i \in 1..Len(l) : l[i][1] # ret'.movie_id]_vars

\* a delete_rating that found nothing to delete while the user holds a rating
C8_Witness ==
  /\ ret.op = "delete_rating" /\ ret.result = "False"
  /\ RatedIds(ratings, ret.user_id) # {}

\* C9: for a user with no rating in the table, every record returned by
\* get_hybrid_recommendations has collaborative_component = 0.
C9_ColdStartContentOnly ==
  (ret.op = "hybrid" /\ RatedIds(ratings, ret.user_id) = {}) =>
    \A i \in 1..Len(ret.out) : ret.out[i].collaborative_component = 0

\* (n - i) / n for the entry of rank index i (from 0) of a list of length n,
\* 0 for an id the list does not hold, as <<numerator, denominator>>
RankScore(list, id) ==
  IF \E p \in 1..Len(list) : list[p] = id
  THEN <<Len(list) - ((CHOOSE p \in 1..Len(list) : list[p] = id) - 1), Len(list)>>
  ELSE <<0, 1>>

\* the weighted sum of the rank scores of movie id in the two lists of the
\* last call, as the fraction <<numerator, denominator>> of thousandths
WeightedSum(id) ==
  LET cs == RankScore(ret.content, id)
      ls == RankScore(ret.collab, id)
  IN  <<10 * (hybrid_system.content_weight * cs[1] * ls[2]
              + hybrid_system.collaborative_weight * ls[1] * cs[2]), cs[2] * ls[2]>>

Abs(x) == IF x < 0 THEN 0 - x ELSE x

\* C10 as stated: hybrid_score equals content_weight x (n - i)/n +
\* collaborative_weight x (n' - i')/n' (to within 1e-6).
C10_HybridScoreIsWeightedSum ==
  ret.op = "hybrid" =>
    \A i \in 1..Len(ret.out) :
      LET w == WeightedSum(ret.out[i].id)
      IN  1000 * Abs(ret.out[i].hybrid_score * w[2] - w[1]) <= w[2]

\* C10 as amended: hybrid_score is that weighted sum rounded to 3 decimals
\* (it differs from it by at most 0.0005), and the two components returned
\* are the positional scores rounded to 3 decimals.
C10_HybridScoreIsRoundedWeightedSum ==
  ret.op = "hybrid" =>
    \A i \in 1..Len(ret.out) :
      LET rec == ret.out[i]
          w == WeightedSum(rec.id)
          ci == IndexOf(ret.content, rec.id)
          li == IndexOf(ret.collab, rec.id)
          nc == Len(ret.content)
          nl == Len(ret.collab)
      IN  /\ 2 * Abs(rec.hybrid_score * w[2] - w[1]) <= w[2]
          /\ IF ci = 0 THEN rec.content_component = 0
             ELSE 2 * Abs(rec.content_component * nc - 1000 * (nc - (ci - 1))) <= nc
          /\ IF li = 0 THEN rec.collaborative_component = 0
             ELSE 2 * Abs(rec.collaborative_component * nl - 1000 * (nl - (li - 1))) <= nl

\* a call that returned a movie of both lists, one of the content list only
\* and a score that had to be rounded
C10_Witness ==
  /\ ret.op = "hybrid"
  /\ \E i \in 1..Len(ret.out) :
       ret.out[i].id \in Range(ret.content) \cap Range(ret.collab)
  /\ \E i \in 1..Len(ret.out) :
       /\ ret.out[i].id \notin Range(ret.collab)
       /\ ret.out[i].hybrid_score * WeightedSum(ret.out[i].id)[2]
            # WeightedSum(ret.out[i].id)[1]

\* C16: when train_collaborative_models returns, the user-movie matrix and
\* both similarity matrices are those of the ratings table at the call, and
\* the factor matrices are those of the table or absent (a skipped
\* factorization); with an empty table nothing of an earlier table is left.
C16_TrainReplacesModel ==
  ret.op = "train" =>
    LET B == build_user_movie_matrix(ratings)
    IN  /\ hybrid_system.user_movie_matrix = B
        /\ hybrid_system.user_similarity_matrix = B
        /\ hybrid_system.item_similarity_matrix = B
        /\ hybrid_system.user_factors \in {B, None}
        /\ hybrid_system.item_factors \in {B, None}

\* C17: a second train_collaborative_models on the same ratings table leaves
\* the matrices, the factors and is_trained as the first call left them.
C17_TrainTwiceSameModel ==
  ret.op = "train" =>
    ModelState(train_collaborative_models(hybrid_system, ratings, sklearn))
      = ModelState(hybrid_system)

\* a training on a table of two users has returned, with factors computed
C17_Witness ==
  /\ ret.op = "train"
  /\ hybrid_system.is_trained
  /\ NUsers(hybrid_system.user_movie_matrix) = 2
  /\ hybrid_system.user_factors = hybrid_system.user_movie_matrix

\* C18: a get_hybrid_recommendations call for which the collaborative model
\* has no candidates while the content provider has unrated ones returns
\* unrated content candidates, and one whose content list is empty while
\* unrated collaborative candidates exist returns those; it neither raises
\* nor returns an empty list.
C18_HybridDegrades ==
  ret.op = "hybrid" =>
    LET rated == RatedIds(ratings, ret.user_id)
        lists == CollaborativeLists(hybrid_system, ret.user_id, 2 * ret.k)
        content == IF ret.title = "" THEN {Range(ret.content)}
                   ELSE {Range(d.recommendations) :
                           d \in recommend_by_title(ret.title, 2 * ret.k)}
        collab == IF ret.title = "" THEN {Range(ret.collab)} ELSE {Range(l) : l \in lists}
        ids == {ret.out[i].id : i \in 1..Len(ret.out)}
    IN  /\ (collab = {{}} /\ \A c \in content : c \ rated # {}) =>
             /\ ret.result = "ok" /\ ret.out # <<>>
             /\ \E c \in content : ids \subseteq c \ rated
        /\ (content = {{}} /\ \A l \in collab : l \ rated # {}) =>
             /\ ret.result = "ok" /\ ret.out # <<>>
             /\ \E l \in collab : ids \subseteq l \ rated

\* a thread is in a cycle, past the drain of the queue
PastDrain(t) ==
  t.pc \in {"backup", "train", "usim", "isim", "svd", "trained", "save", "bookkeep",
            "metrics", "except", "return", "loop_except"}

\* C11: the batch of a cycle is the queue as it was when the cycle's drain
\* began: it holds every event enqueued before and none enqueued after.
C11_BatchIsQueueAtDrainBegin ==
  \A t \in BagToSet(threads) : PastDrain(t) => t.batch = t.q0

\* C12: when a cycle ends in a fault, update_queue and update_count are what
\* they were when the cycle began.
C12_FaultKeepsQueueAndCounter ==
  \A t \in BagToSet(threads) :
    (t.pc \in {"return", "loop_except"} /\ t.fault # "") =>
      update_queue = t.q0 /\ update_count = t.c0

\* C13: while is_running stays true no loop thread ends, whatever raises in
\* the loop body, in a cycle or in a registered callback.
C13_LoopSurvivesFaults ==
  [][(is_running /\ is_running') => NLive("loop")' >= NLive("loop")]_vars

\* a thread without its history of stops
WithoutStops(t) == [t EXCEPT !.after_stop = "no"]

\* C14: stop_real_time_updates returns with is_running false and leaves the
\* threads and the model as they are, and no loop thread goes on to another
\* iteration at a wake that follows the stop.
C14_StopEndsLoopAtNextWake ==
  [][/\ (ret.op = "none" /\ ret'.op = "stop_real_time_updates") =>
          /\ ~is_running'
          /\ hybrid_system' = hybrid_system
          /\ BagOfAll(WithoutStops, threads') = BagOfAll(WithoutStops, threads)
      /\ \A t \in BagToSet(threads') : t.after_stop # "iterated"]_vars

\* C15: start_real_time_updates while is_running changes nothing, and a
\* loop thread that went on after a stop is never beside another loop thread.
C15_AtMostOneLoop ==
  [][/\ (ret.op = "none" /\ ret'.op = "start_real_time_updates" /\ is_running) =>
          UNCHANGED <<is_running, threads>>
      /\ \A t \in BagToSet(threads') :
           (t.kind = "loop" /\ t.after_stop = "iterated") => NLive("loop")' = 1]_vars

\* add_recommendation_feedback's valid_feedback
valid_feedback == {"like", "dislike", "not_interested", "watched"}

\* the rating or the feedback category of an event is well-formed
ValidEvent(e) ==
  IF e.type = "rating" THEN ValidRating(e.value) ELSE e.value \in valid_feedback

\* C19: no out-of-range rating is in the ratings table, and no event with
\* an out-of-range rating or an unknown feedback category is in the update
\* queue or in a batch taken from it.
C19_MalformedInputRecordsNothing ==
  /\ \A r \in BagToSet(ratings) : ValidRating(r.rating)
  /\ \A i \in 1..Len(update_queue) : ValidEvent(update_queue[i])
  /\ \A t \in BagToSet(threads) : \A i \in 1..Len(t.batch) : ValidEvent(t.batch[i])

C25_ContentCandidatesByCase ==
  ret.op = "hybrid" =>
    IF ret.title # ""
    THEN /\ ret.result = "ok"
         /\ \E d \in recommend_by_title(ret.title, 2 * ret.k) :
              ret.content = d.recommendations
    ELSE IF RatedIds(ratings, ret.user_id) # {}
    THEN \E pairs \in get_user_ratings(ratings, ret.user_id) :
           ret.content = search_by_genre(get_user_preferences(pairs)[1], 2 * ret.k)
    ELSE ret.content \in get_random_movies(2 * ret.k)

\* C24: adapt_content_weights on a non-empty batch with a positive rate under
\* 0.6 sets the collaborative weight to min(0.8, old + learning_rate), which
\* is not lower than the old one, and the content weight to 1 minus it; on
\* an empty batch or a rate of 0.6 or more both weights keep their values;
\* from nonnegative weights both weights stay nonnegative.
C24_AdaptRaisesCollaborativeWeight ==
  ret.op = "adapt_content_weights" =>
    LET old_content == ret.pre[1]
        old_collab == ret.pre[2]
        n == Len(ret.reads)
        positive == Cardinality({i \in 1..n : ret.reads[i] \in {"like", "watched"}})
        low == n > 0 /\ 10 * positive < 6 * n
    IN  /\ low => /\ hybrid_system.collaborative_weight = Min(80, old_collab + learning_rate)
                  /\ hybrid_system.collaborative_weight >= old_collab
                  /\ hybrid_system.content_weight = 100 - hybrid_system.collaborative_weight
        /\ ~low => /\ hybrid_system.collaborative_weight = old_collab
                   /\ hybrid_system.content_weight = old_content
        /\ hybrid_system.collaborative_weight >= 0
        /\ hybrid_system.content_weight >= 0

\* C29: on a controller that is not running (never started, or stopped) a
\* queue_rating_update call starts no retrain cycle, also when the counter
\* has reached the threshold.
C29_NoRetrainUnlessRunning ==
  (ret.op = "queue_rating_update" /\ ~is_running) => ~ret.launched

\* C26: when no enqueue call and no retrain cycle is under way, update_count
\* is at least the number of events in update_queue: every event still
\* queued is counted toward the threshold.
C26_CounterCoversQueue ==
  (call.op = "none" /\ threads = EmptyBag) => update_count >= Len(update_queue)

\* C21: whenever a cycle is at or inside train_collaborative_models, a backup
\* file holding the model as it was when the cycle began exists; and the
\* file of the latest models is written only by a cycle whose training has
\* returned without a fault, with the model that training left.
C21_BackupBeforeTrainLatestAfter ==
  [][ /\ \A t \in BagToSet(threads') :
           t.pc \in {"train", "usim", "isim", "svd", "trained"} =>
             /\ newest_backup'.exists
             /\ newest_backup'.models = t.pre
      /\ latest' # latest =>
           \E t \in BagToSet(threads) :
             /\ t.pc = "save" /\ t.fault = ""
             /\ latest' = save_models(hybrid_system) ]_vars

\* C28: a cycle whose training returned and whose latest models were saved
\* (its fault, if any, came from on_model_updated) leaves the model it
\* trained in place: the handler of the fault does not load a backup over it.
C28_RestoreOnlyAfterFailedTraining ==
  [][ ( /\ \E t \in BagToSet(threads) : t.pc = "except" /\ t.fault = "on_model_updated"
        /\ latest = save_models(hybrid_system) )
      => hybrid_system' = hybrid_system ]_vars

\* C22: a cycle on a non-empty batch that ends without a fault has appended
\* one metrics record with the size of its batch, after resetting
\* update_count and setting last_update; a cycle that ends with a fault
\* leaves last_update as it was when the cycle began.
C22_CleanCycleBookkeeping ==
  [][ /\ \A t \in BagToSet(threads) :
           ( /\ t.pc = "metrics" /\ t.batch # <<>>
             /\ \E t2 \in BagToSet(threads') : t2.pc = "return" /\ t2.fault = "" )
           => metrics' = Append(metrics, Len(t.batch))
      /\ \A t \in BagToSet(threads') :
           (t.pc \in {"return", "loop_except"} /\ t.fault # "") => last_update' = t.l0
      /\ last_update' # last_update =>
           /\ last_update' = now /\ update_count' = 0
           /\ \E t \in BagToSet(threads) : t.pc = "bookkeep" /\ t.batch # <<>> ]_vars

\* a thread in state t takes a step
Steps(t) == CopiesIn(t, threads') < CopiesIn(t, threads)

Batched ==
  LET ts == BagToSet(threads)
  IN  [n \in 1..MaxEvents |->
         Cardinality({t \in ts : \E i \in 1..Len(t.batch) : t.batch[i].n = n /\ threads[t] > 0})]

\* C27: no cycle waits in update_queue.get() on an empty queue, whatever
\* other cycles have taken from it since its emptiness test; and no event
\* is in the batches of two cycles, or in a batch and still in the queue.
C27_DrainNeverBlocks ==
  /\ \A t \in BagToSet(threads) : t.pc = "get" => update_queue # <<>>
  /\ \A n \in 1..MaxEvents :
       Batched[n] + Cardinality({i \in 1..Len(update_queue) : update_queue[i].n = n}) <= 1

\* event n is in update_queue
Queued(n) == \E i \in 1..Len(update_queue) : update_queue[i].n = n

\* C30: while is_running stays true, every event in update_queue is
\* eventually taken from it by a cycle.
C30_QueuedEventEventuallyDrained ==
  \A n \in 1..MaxEvents : (is_running /\ Queued(n)) ~> (~Queued(n) \/ ~is_running)

====
